---------------------------- MODULE Spec2Model ----------------------------
(***************************************************************************)
(* The asynchronous insight-generation job subsystem of qlik-repmeta       *)
(* (backend/app/ai_insights.py, db.py, routes_ai_insights.py).             *)
(*                                                                         *)
(* The two tables ai_insight_job and ai_insight_result are the shared      *)
(* state.  Every function of ai_insights.py opens its own connection       *)
(* (db.connection): one transaction, committed on normal exit and rolled   *)
(* back on an exception.  The database is PostgreSQL at READ COMMITTED:    *)
(* a statement sees committed rows only, a writer of a row holds its row   *)
(* lock until its transaction ends, another writer of the same row waits   *)
(* for it, and SELECT ... FOR UPDATE SKIP LOCKED leaves out the rows       *)
(* another transaction holds.  A function that runs more than one          *)
(* statement is split at the await between the statements, where other     *)
(* coroutines and other processes run.                                     *)
(***************************************************************************)
EXTENDS Integers, Sequences, FiniteSets, TLC

(***************************************************************************)
(* Bounds of the model.                                                    *)
(***************************************************************************)
NumRuns == 1        \* run ids 1..NumRuns
NumWorkers == 2     \* worker processes running worker_loop
NumClients == 2     \* concurrent callers of the Job API
MaxAttempts == 2    \* start_job / retry_job stop being called at this many attempts
NumPending == 2     \* the N pending jobs of the exclusive-claim scenario
NumStarters == 3    \* the k concurrent start_job calls of the double-start scenario
MaxFailing == 1     \* sections of build_context whose query fails
MaxAbsent == 1      \* views of build_context that do not exist

RunIds == 1 .. NumRuns
Workers == 1 .. NumWorkers
Clients == 1 .. NumClients

(***************************************************************************)
(* SQL NULL / Python None, and a non-null value v.                         *)
(***************************************************************************)
NULL == << >>
Some(v) == << v >>
COALESCE(a, b) == IF a # NULL THEN a ELSE b

(***************************************************************************)
(* Config (ai_insights.py 70-76).                                          *)
(***************************************************************************)
OLLAMA_BASE_URL == "http://127.0.0.1:11434"
OLLAMA_MODEL == "llama3.2:3b"
WORKER_ID(w) == w

\* The arguments the callers pass in the model.
RequestedByArgs == {"ui"}
ModelArgs == {NULL, Some(""), Some("m1")}

(***************************************************************************)
(* ai_insight_job: a row as the INSERT of ensure_job_created / start_job   *)
(* creates it.  The columns the INSERT does not name take the defaults of  *)
(* the table: attempts 0, everything else NULL.                            *)
(***************************************************************************)
ColumnDefaults ==
    [ attempts |-> 0,
      locked_by |-> NULL, locked_at |-> NULL,
      started_at |-> NULL, finished_at |-> NULL,
      error_message |-> NULL, error_detail |-> NULL,
      latest_result_id |-> NULL,
      context_sha256 |-> NULL, context_json |-> NULL ]

InsertedJob(job_id, run_id, requested_by, model) ==
    [ job_id |-> job_id, run_id |-> run_id, status |-> "created",
      requested_by |-> requested_by, model |-> model,
      attempts |-> ColumnDefaults.attempts,
      locked_by |-> ColumnDefaults.locked_by,
      locked_at |-> ColumnDefaults.locked_at,
      started_at |-> ColumnDefaults.started_at,
      finished_at |-> ColumnDefaults.finished_at,
      error_message |-> ColumnDefaults.error_message,
      error_detail |-> ColumnDefaults.error_detail,
      latest_result_id |-> ColumnDefaults.latest_result_id,
      context_sha256 |-> ColumnDefaults.context_sha256,
      context_json |-> ColumnDefaults.context_json ]

Statuses == {"created", "pending", "running", "succeeded", "failed"}

VARIABLES
    jobs,       \* committed ai_insight_job: job_id -> row
    jobSeq,     \* the sequence behind job_id: the last value handed out
    results,    \* committed ai_insight_result: result_id -> row
    resultSeq,  \* the sequence behind result_id
    rowLock,    \* run_id -> the transaction holding the row (or unique key) of that run
    api,        \* client -> the Job API call it is inside of
    wk,         \* worker -> position in worker_loop / process_one_job and its locals
    now,        \* the database clock: it has advanced whenever a transaction reads now()
    claims,     \* history: job_id -> claims returned since the job last entered pending
    last        \* history: the operation the last step completed, with what it returned

vars == << jobs, jobSeq, results, resultSeq, rowLock, api, wk, now, claims, last >>

(***************************************************************************)
(* build_context (ai_insights.py 229-585): one connection, one cursor, one *)
(* transaction (autocommit is off), and the sections in this order.  view: *)
(* the section is entered by "if await _view_exists(cur, ...)", which is   *)
(* outside every try; ident: the section is entered only with a            *)
(* customer_id from the identity section.  The query of every section is   *)
(* inside a try whose except appends a warning.                            *)
(***************************************************************************)
ContextSections ==
    << [ name |-> "identity",                   view |-> FALSE, ident |-> FALSE ],
       [ name |-> "endpoints",                  view |-> TRUE,  ident |-> FALSE ],
       [ name |-> "tasks",                      view |-> TRUE,  ident |-> FALSE ],
       [ name |-> "task_settings_overview",     view |-> TRUE,  ident |-> FALSE ],
       [ name |-> "task_health_t90",            view |-> TRUE,  ident |-> TRUE ],
       [ name |-> "endpoint_perf_t90",          view |-> TRUE,  ident |-> TRUE ],
       [ name |-> "seen_component_types",       view |-> FALSE, ident |-> FALSE ],
       [ name |-> "seen_endpoints",             view |-> FALSE, ident |-> FALSE ],
       [ name |-> "v_unmapped_component_types", view |-> TRUE,  ident |-> FALSE ],
       [ name |-> "v_unmapped_endpoints",       view |-> TRUE,  ident |-> FALSE ],
       [ name |-> "seen_license_tickers",       view |-> FALSE, ident |-> TRUE ],
       [ name |-> "v_unmapped_license_tickers", view |-> TRUE,  ident |-> TRUE ],
       [ name |-> "v_unknown_counts",           view |-> TRUE,  ident |-> FALSE ] >>

SectionNames == { ContextSections[i].name : i \in DOMAIN ContextSections }
ViewNames == { ContextSections[i].name : i \in { k \in DOMAIN ContextSections : ContextSections[k].view } }

\* The schema build_context finds: the sections whose query fails when it is
\* run (a table or a column it names is missing), the views that do not
\* exist, whether ingest_run has the row of the run (customer_id, server_id)
\* and whether the customer has license tickers.
CompleteDb == [ failing |-> {}, absent |-> {}, ident |-> TRUE, tickers |-> TRUE ]
Dbs ==
    [ failing : { f \in SUBSET SectionNames : Cardinality(f) <= MaxFailing },
      absent : { a \in SUBSET ViewNames : Cardinality(a) <= MaxAbsent },
      ident : BOOLEAN, tickers : BOOLEAN ]

\* ctx = {"run_id": run_id, "warnings": []}
ContextOf(run_id) == [ run_id |-> run_id, warnings |-> << >> ]

\* One section.  A statement that fails aborts the transaction; every later
\* statement of the connection then fails with InFailedSqlTransaction: inside
\* a try it becomes a warning, in _view_exists it leaves build_context.
ContextSection(st, sec, db) ==
    IF st.raised \/ (sec.ident /\ ~st.customer) THEN st
    ELSE IF sec.view /\ st.aborted THEN [ st EXCEPT !.raised = TRUE ]
    ELSE IF sec.view /\ sec.name \in db.absent THEN st
    ELSE IF sec.name = "v_unmapped_license_tickers" /\ ~st.tickers THEN st
    ELSE IF st.aborted \/ sec.name \in db.failing
         THEN [ st EXCEPT !.aborted = TRUE,
                          !.warnings = Append(@, sec.name),
                          !.customer = IF sec.name = "identity" THEN FALSE ELSE @ ]
    ELSE [ st EXCEPT !.customer = IF sec.name = "identity" THEN db.ident ELSE @,
                     !.tickers = IF sec.name = "seen_license_tickers" THEN db.tickers ELSE @ ]

\* build_context(run_id): whether it raises, and the ctx it returns otherwise
build_context(run_id, db) ==
    LET after[i \in 0 .. Len(ContextSections)] ==
            IF i = 0
            THEN [ raised |-> FALSE, aborted |-> FALSE, customer |-> FALSE,
                   tickers |-> FALSE, warnings |-> ContextOf(run_id).warnings ]
            ELSE CHOOSE st \in { ContextSection(prev, ContextSections[i], db) :
                                 prev \in { after[i - 1] } } : TRUE
        end == after[Len(ContextSections)]
    IN  [ raised |-> end.raised,
          ctx |-> [ ContextOf(run_id) EXCEPT !.warnings = end.warnings ] ]

(***************************************************************************)
(* Table helpers.                                                          *)
(***************************************************************************)
Free == << >>
ClientTx(c) == << "client", c >>
WorkerTx(w) == << "worker", w >>

\* SELECT ... WHERE run_id = r
JobIdsOfRun(tbl, r) == { j \in DOMAIN tbl : tbl[j].run_id = r }
\* fetchone() of that SELECT (NULL when there is no row)
FetchJobOfRun(tbl, r) ==
    IF JobIdsOfRun(tbl, r) = {} THEN NULL
    ELSE Some(tbl[CHOOSE j \in JobIdsOfRun(tbl, r) : TRUE])

\* the table with one more row
WithRow(tbl, row) ==
    [ j \in DOMAIN tbl \cup {row.job_id} |-> IF j = row.job_id THEN row ELSE tbl[j] ]

IdleCall == [ pc |-> "idle", run_id |-> 0, requested_by |-> "", m |-> "", job |-> NULL ]
IdleWorker ==
    [ pc |-> "loop", job |-> NULL, tx_now |-> NULL, calls |-> 0, outs |-> << >>,
      raw |-> NULL, err |-> NULL, result_id |-> NULL, stop |-> FALSE,
      db |-> CompleteDb, ctx |-> NULL ]
\* The record of a step: the function, its caller, the run, the status the
\* row of a write had before it ("absent" with no row), what the function
\* returned or raised.
NoOp ==
    [ op |-> "init", who |-> 0, run_id |-> 0, before |-> "", ret |-> NULL, raised |-> NULL ]
Done(op, who, r, ret) ==
    [ op |-> op, who |-> who, run_id |-> r, before |-> "", ret |-> ret, raised |-> NULL ]
Wrote(op, who, r, before, ret) ==
    [ op |-> op, who |-> who, run_id |-> r, before |-> before, ret |-> ret, raised |-> NULL ]
Raised(op, who, r, before, exc) ==
    [ op |-> op, who |-> who, run_id |-> r, before |-> before, ret |-> NULL,
      raised |-> Some(exc) ]
StatusOf(job) == IF job = NULL THEN "absent" ELSE job[1].status

\* start_job / retry_job calls in flight for run r
InFlight(r) == { c \in DOMAIN api : api[c].pc # "idle" /\ api[c].run_id = r }
\* Spec stops calling start_job / retry_job for a run once the calls made and
\* in flight can take its attempts to MaxAttempts.
AttemptsLeft(r) ==
    \A j \in JobIdsOfRun(jobs, r) :
        jobs[j].attempts + Cardinality(InFlight(r)) < MaxAttempts

Init ==
    /\ jobs = << >>
    /\ jobSeq = 0
    /\ results = << >>
    /\ resultSeq = 0
    /\ rowLock = [ r \in RunIds |-> Free ]
    /\ api = [ c \in Clients |-> IdleCall ]
    /\ wk = [ w \in Workers |-> IdleWorker ]
    /\ now = 1
    /\ claims = << >>
    /\ last = NoOp

(***************************************************************************)
(* Job API: ensure_job_created (ai_insights.py 81-92).                     *)
(***************************************************************************)
\* (variant: a plain INSERT, with no ON CONFLICT clause and no unique key)
InsertAlways(tbl, row) == WithRow(tbl, row)

\* INSERT ... ON CONFLICT (run_id) DO NOTHING
OnConflictDoNothing(tbl, row) ==
    IF JobIdsOfRun(tbl, row.run_id) # {} THEN tbl ELSE WithRow(tbl, row)

\* One statement, committed at once.  With no committed row of the run, the
\* INSERT waits for a transaction that is inserting the same run_id.  (The
\* model hands out a job_id only for a row it inserts.)
ensure_job_created(r) ==
    /\ JobIdsOfRun(jobs, r) = {} => rowLock[r] = Free
    /\ LET row == InsertedJob(jobSeq + 1, r, "system", Some(OLLAMA_MODEL))
           tbl == OnConflictDoNothing(jobs, row)
       IN  /\ jobs' = tbl
           /\ jobSeq' = IF tbl = jobs THEN jobSeq ELSE jobSeq + 1
           /\ claims' = [ j \in DOMAIN tbl |-> IF j \in DOMAIN jobs THEN claims[j] ELSE 0 ]
    /\ last' = Wrote("ensure_job_created", 0, r, StatusOf(FetchJobOfRun(jobs, r)), NULL)
    /\ UNCHANGED << results, resultSeq, rowLock, api, wk, now >>

(***************************************************************************)
(* Job API: start_job (ai_insights.py 94-132).                             *)
(***************************************************************************)
\* m = model or OLLAMA_MODEL
ModelOrDefault(model) ==
    IF model = NULL \/ model = Some("") THEN OLLAMA_MODEL ELSE model[1]

\* ON CONFLICT (run_id) DO UPDATE SET requested_by = EXCLUDED.requested_by,
\*   model = COALESCE(EXCLUDED.model, ai_insight_job.model)
OnConflictDoUpdate(row, requested_by, m) ==
    [ row EXCEPT !.requested_by = requested_by,
                 !.model = COALESCE(Some(m), row.model) ]

\* (variant: the existence check takes no lock, as a SELECT before the INSERT would)
UpsertTakesNoRow(c, r) == UNCHANGED rowLock

\* The upsert writes the row of the run (or its unique key, when it inserts):
\* it waits for another transaction holding it and holds it to the commit.
UpsertTakesRow(c, r) ==
    /\ rowLock[r] = Free
    /\ rowLock' = [ rowLock EXCEPT ![r] = ClientTx(c) ]

\* (variant: start_job also re-queues a finished job)
StartAdvancesFromSucceeded(job) == job.status \in {"created", "failed", "succeeded"}

\* (variant: start_job also re-queues a running job)
StartAdvancesFromRunning(job) == job.status \in {"created", "failed", "running"}

\* if job["status"] in ("created", "failed")
StartAdvances(job) == job.status \in {"created", "failed"}

\* (variant: the UPDATE of start_job leaves the lock columns alone)
StartTransitionKeepingLock(row) ==
    [ row EXCEPT !.status = "pending",
                 !.attempts = @ + 1,
                 !.error_message = NULL,
                 !.error_detail = NULL ]

\* UPDATE ... SET status='pending', attempts = attempts + 1, error_message=NULL,
\*   error_detail=NULL, locked_by=NULL, locked_at=NULL WHERE run_id=%s
StartTransition(row) ==
    [ row EXCEPT !.status = "pending",
                 !.attempts = @ + 1,
                 !.error_message = NULL,
                 !.error_detail = NULL,
                 !.locked_by = NULL,
                 !.locked_at = NULL ]

\* The upsert, up to job = await cur.fetchone().
StartUpsert(c, r, requested_by, model) ==
    /\ api[c].pc = "idle"
    /\ UpsertTakesRow(c, r)
    /\ LET m == ModelOrDefault(model)
           cur == FetchJobOfRun(jobs, r)
           job == IF cur = NULL
                  THEN InsertedJob(jobSeq + 1, r, requested_by, Some(m))
                  ELSE OnConflictDoUpdate(cur[1], requested_by, m)
       IN  /\ api' = [ api EXCEPT ![c] =
                         [ pc |-> "start_upserted", run_id |-> r,
                           requested_by |-> requested_by, m |-> m, job |-> Some(job) ] ]
           /\ jobSeq' = IF cur = NULL THEN jobSeq + 1 ELSE jobSeq
    /\ last' = Done("start_job:upsert", c, r, NULL)
    /\ UNCHANGED << jobs, results, resultSeq, wk, now, claims >>

\* The conditional UPDATE, return dict(job), and the commit of connection().
StartFinish(c) ==
    /\ api[c].pc = "start_upserted"
    /\ LET r == api[c].run_id
           job == api[c].job[1]
           upserted ==
               IF JobIdsOfRun(jobs, r) = {} THEN WithRow(jobs, job)
               ELSE [ j \in DOMAIN jobs |->
                        IF jobs[j].run_id = r
                        THEN OnConflictDoUpdate(jobs[j], api[c].requested_by, api[c].m)
                        ELSE jobs[j] ]
           after ==
               IF StartAdvances(job)
               THEN [ j \in DOMAIN upserted |->
                        IF upserted[j].run_id = r THEN StartTransition(upserted[j])
                        ELSE upserted[j] ]
               ELSE upserted
           ret == IF StartAdvances(job) THEN FetchJobOfRun(after, r) ELSE Some(job)
       IN  /\ jobs' = after
           /\ claims' = [ j \in DOMAIN after |->
                            IF j \notin DOMAIN jobs THEN 0
                            ELSE IF StartAdvances(job) /\ after[j].run_id = r THEN 0
                            ELSE claims[j] ]
           /\ rowLock' = [ rowLock EXCEPT ![r] = IF @ = ClientTx(c) THEN Free ELSE @ ]
           /\ last' = Wrote("start_job", c, r, StatusOf(FetchJobOfRun(jobs, r)), ret)
    /\ api' = [ api EXCEPT ![c] = IdleCall ]
    /\ UNCHANGED << jobSeq, results, resultSeq, wk, now >>

(***************************************************************************)
(* Job API: retry_job (ai_insights.py 134-156) behind insights_retry       *)
(* (routes_ai_insights.py 52-60).                                          *)
(***************************************************************************)
\* (variant: retry_job leaves a running job to its worker)
RetryResetUnlessRunning(row) ==
    IF row.status = "running" THEN row
    ELSE [ row EXCEPT !.status = "pending",
                      !.attempts = @ + 1,
                      !.error_message = NULL,
                      !.error_detail = NULL,
                      !.locked_by = NULL,
                      !.locked_at = NULL ]

\* (variant: retry_job re-queues the job without counting an attempt)
RetryResetSameAttempt(row) ==
    [ row EXCEPT !.status = "pending",
                 !.error_message = NULL,
                 !.error_detail = NULL,
                 !.locked_by = NULL,
                 !.locked_at = NULL ]

\* (variant: retry_job also forgets the result of the earlier attempt)
RetryResetForgettingResult(row) ==
    [ row EXCEPT !.status = "pending",
                 !.attempts = @ + 1,
                 !.error_message = NULL,
                 !.error_detail = NULL,
                 !.locked_by = NULL,
                 !.locked_at = NULL,
                 !.latest_result_id = NULL ]

\* UPDATE ... SET status='pending', attempts = attempts + 1, error_message=NULL,
\*   error_detail=NULL, locked_by=NULL, locked_at=NULL WHERE run_id=%s
RetryReset(row) ==
    [ row EXCEPT !.status = "pending",
                 !.attempts = @ + 1,
                 !.error_message = NULL,
                 !.error_detail = NULL,
                 !.locked_by = NULL,
                 !.locked_at = NULL ]

\* except KeyError: raise HTTPException(status_code=404, detail="Job not found")
insights_retry(exc) == IF exc = "KeyError" THEN 404 ELSE 400

\* SELECT * ... WHERE run_id=%s; if not job: raise KeyError("Job not found")
\* (the exception leaves connection(), which rolls back).
RetrySelect(c, r) ==
    /\ api[c].pc = "idle"
    /\ LET job == FetchJobOfRun(jobs, r)
       IN  IF job = NULL
           THEN /\ last' = Raised("retry_job", c, r, "absent", "KeyError")
                /\ UNCHANGED api
           ELSE /\ api' = [ api EXCEPT ![c] =
                              [ IdleCall EXCEPT !.pc = "retry_selected", !.run_id = r ] ]
                /\ last' = Done("retry_job:select", c, r, NULL)
    /\ UNCHANGED << jobs, jobSeq, results, resultSeq, rowLock, wk, now, claims >>

\* The UPDATE (it waits for a transaction holding the row), the return and
\* the commit.
RetryUpdate(c) ==
    /\ api[c].pc = "retry_selected"
    /\ LET r == api[c].run_id
           after == [ j \in DOMAIN jobs |->
                        IF jobs[j].run_id = r THEN RetryReset(jobs[j]) ELSE jobs[j] ]
       IN  /\ rowLock[r] = Free
           /\ jobs' = after
           /\ claims' = [ j \in DOMAIN jobs |-> IF jobs[j].run_id = r THEN 0 ELSE claims[j] ]
           /\ last' = Wrote("retry_job", c, r, StatusOf(FetchJobOfRun(jobs, r)),
                           FetchJobOfRun(after, r))
    /\ api' = [ api EXCEPT ![c] = IdleCall ]
    /\ UNCHANGED << jobSeq, results, resultSeq, rowLock, wk, now >>

(***************************************************************************)
(* Job API: get_insights (ai_insights.py 158-189).  The automation_event   *)
(* table is outside the job subsystem and is left out of the answer.       *)
(***************************************************************************)
\* result: the row latest_result_id names, when the job has one
LatestResult(job) ==
    IF job # NULL /\ job[1].latest_result_id # NULL
                  /\ job[1].latest_result_id[1] \in DOMAIN results
    THEN Some([ schema_version |-> results[job[1].latest_result_id[1]].schema_version,
                json |-> results[job[1].latest_result_id[1]].result_json ])
    ELSE NULL

\* (variant: get_insights creates the job row it does not find)
get_insights_creating(c, r) ==
    /\ api[c].pc = "idle"
    /\ LET job == FetchJobOfRun(jobs, r)
           tbl == IF job # NULL \/ rowLock[r] # Free THEN jobs
                  ELSE WithRow(jobs, InsertedJob(jobSeq + 1, r, "system", Some(OLLAMA_MODEL)))
       IN  /\ jobs' = tbl
           /\ jobSeq' = IF tbl = jobs THEN jobSeq ELSE jobSeq + 1
           /\ claims' = [ j \in DOMAIN tbl |-> IF j \in DOMAIN jobs THEN claims[j] ELSE 0 ]
           /\ last' = Wrote("get_insights", c, r, StatusOf(job),
                            Some([ job |-> FetchJobOfRun(tbl, r),
                                   result |-> LatestResult(job) ]))
    /\ UNCHANGED << results, resultSeq, rowLock, api, wk, now >>

get_insights(c, r) ==
    /\ api[c].pc = "idle"
    /\ LET job == FetchJobOfRun(jobs, r)
       IN  last' = Wrote("get_insights", c, r, StatusOf(job),
                         Some([ job |-> job, result |-> LatestResult(job) ]))
    /\ UNCHANGED << jobs, jobSeq, results, resultSeq, rowLock, api, wk, now, claims >>

(***************************************************************************)
(* Worker tick: _claim_one_pending_job (ai_insights.py 648-677).           *)
(***************************************************************************)
\* (variant: a plain SELECT, without FOR UPDATE SKIP LOCKED)
ClaimableIgnoringLocks(j) == jobs[j].status = "pending"

\* (variant: the claim also takes failed jobs)
ClaimableOrFailed(j) ==
    /\ jobs[j].status \in {"pending", "failed"}
    /\ rowLock[jobs[j].run_id] = Free

\* SELECT ... WHERE status='pending' ... FOR UPDATE SKIP LOCKED: a pending row
\* no other transaction holds.
Claimable(j) ==
    /\ jobs[j].status = "pending"
    /\ rowLock[jobs[j].run_id] = Free

\* the columns the SELECT returns: dict(job)
ClaimedDict(row) ==
    [ job_id |-> row.job_id, run_id |-> row.run_id,
      attempts |-> row.attempts, model |-> row.model ]

\* (variant: the UPDATE of the claim records the lock and leaves the status)
ClaimUpdateRowStillPending(row, w, t) ==
    [ row EXCEPT !.locked_by = Some(WORKER_ID(w)),
                 !.locked_at = Some(t),
                 !.started_at = COALESCE(@, Some(t)) ]

\* (variant: every claim stamps started_at)
ClaimUpdateRowRestamping(row, w, t) ==
    [ row EXCEPT !.status = "running",
                 !.locked_by = Some(WORKER_ID(w)),
                 !.locked_at = Some(t),
                 !.started_at = Some(t) ]

\* (variant: the claim counts as an attempt)
ClaimUpdateRowCountingAttempt(row, w, t) ==
    [ row EXCEPT !.status = "running",
                 !.attempts = @ + 1,
                 !.locked_by = Some(WORKER_ID(w)),
                 !.locked_at = Some(t),
                 !.started_at = COALESCE(@, Some(t)) ]

\* UPDATE ... SET status='running', locked_by=%s, locked_at=now(),
\*   started_at=COALESCE(started_at, now()) WHERE job_id=%s
\* (now() is the start time of the transaction)
ClaimUpdateRow(row, w, t) ==
    [ row EXCEPT !.status = "running",
                 !.locked_by = Some(WORKER_ID(w)),
                 !.locked_at = Some(t),
                 !.started_at = COALESCE(@, Some(t)) ]

\* The SELECT.  ORDER BY updated_at ASC LIMIT 1: no statement of the
\* repository writes updated_at, so any claimable row may be the first.
\* With no row, process_one_job returns False and worker_loop goes to sleep.
ClaimSelect(w) ==
    /\ wk[w].pc = "loop"
    /\ ~wk[w].stop
    /\ \/ /\ \A j \in DOMAIN jobs : ~Claimable(j)
          /\ wk' = [ wk EXCEPT ![w].pc = "sleep" ]
          /\ last' = Done("_claim_one_pending_job", w, 0, NULL)
          /\ UNCHANGED << rowLock, now >>
       \/ \E j \in DOMAIN jobs :
            /\ Claimable(j)
            /\ rowLock' = [ rowLock EXCEPT ![jobs[j].run_id] = WorkerTx(w) ]
            /\ wk' = [ wk EXCEPT ![w].pc = "claim_selected",
                                 ![w].job = Some(ClaimedDict(jobs[j])),
                                 ![w].tx_now = Some(now) ]
            /\ now' = now + 1
            /\ last' = Done("_claim_one_pending_job:select", w, jobs[j].run_id, NULL)
    /\ UNCHANGED << jobs, jobSeq, results, resultSeq, api, claims >>

\* The UPDATE, return dict(job) and the commit.
ClaimUpdate(w) ==
    /\ wk[w].pc = "claim_selected"
    /\ LET job == wk[w].job[1]
       IN  /\ rowLock[job.run_id] \in {Free, WorkerTx(w)}
           /\ jobs' = [ jobs EXCEPT ![job.job_id] = ClaimUpdateRow(@, w, wk[w].tx_now[1]) ]
           /\ rowLock' = [ rowLock EXCEPT ![job.run_id] = Free ]
           /\ claims' = [ claims EXCEPT ![job.job_id] = @ + 1 ]
           /\ last' = Wrote("_claim_one_pending_job", w, job.run_id,
                           jobs[job.job_id].status, wk[w].job)
    /\ wk' = [ wk EXCEPT ![w].pc = "context", ![w].tx_now = NULL ]
    /\ UNCHANGED << jobSeq, results, resultSeq, api, now >>

(***************************************************************************)
(* process_one_job (ai_insights.py 726-750): the pipeline of a claimed job *)
(***************************************************************************)
\* What ollama_chat returns or raises (ai_insights.py 609-616): a text that
\* is no JSON, JSON that is no InsightOutput (confidence is required), a
\* document of the schema, httpx.TimeoutException, another exception.
RawTexts == {"not json", "{}", "{\"confidence\": 0.5}"}
ChatOutcomes == RawTexts \cup {"TimeoutException", "HTTPStatusError"}

\* json.loads(raw) and InsightOutput.model_validate(obj) both pass
Validates(raw) == raw = "{\"confidence\": 0.5}"

\* validated.model_dump(): the document with the defaults of the schema
ModelDump(raw) ==
    [ summary |-> << >>, findings |-> << >>, risks |-> << >>,
      recommendations |-> << >>, confidence |-> "0.5" ]

\* (variant: except Exception comes first and takes the timeout too)
ErrorOfUnclassified(exc, model) ==
    CASE exc \in {"ValidationError", "JSONDecodeError"} ->
             [ err |-> "Invalid JSON from model", detail |-> [ error |-> exc ] ]
      [] OTHER ->
             [ err |-> "Worker error", detail |-> [ error |-> exc ] ]

\* The except clause an exception of the try block reaches, as the
\* (err, detail) it passes to _mark_failed.
ErrorOf(exc, model) ==
    CASE exc \in {"ValidationError", "JSONDecodeError"} ->
             [ err |-> "Invalid JSON from model", detail |-> [ error |-> exc ] ]
      [] exc = "TimeoutException" ->
             [ err |-> "Ollama timeout",
               detail |-> [ base_url |-> OLLAMA_BASE_URL, model |-> model ] ]
      [] OTHER ->
             [ err |-> "Worker error", detail |-> [ error |-> exc ] ]

\* model = (job.get("model") or OLLAMA_MODEL)
ModelOfJob(job) == ModelOrDefault(job.model)

\* the exception json.loads / model_validate raise on a text
InvalidAs(raw) == IF raw = "not json" THEN "JSONDecodeError" ELSE "ValidationError"

\* context = await build_context(run_id): the ctx it returns, the exception
\* that leaves it from _view_exists, or its connection failing.
BuildContext(w) ==
    /\ wk[w].pc = "context"
    /\ LET job == wk[w].job[1]
           out == build_context(job.run_id, wk[w].db)
       IN  \/ /\ ~out.raised
              /\ wk' = [ wk EXCEPT ![w].pc = "infer", ![w].ctx = Some(out.ctx) ]
              /\ last' = Done("build_context", w, job.run_id, Some(out.ctx))
           \/ /\ out.raised
              /\ wk' = [ wk EXCEPT ![w].pc = "mark_failed",
                                   ![w].err = Some(ErrorOf("InFailedSqlTransaction", ModelOfJob(job))) ]
              /\ last' = Raised("build_context", w, job.run_id, "", "InFailedSqlTransaction")
           \/ /\ wk' = [ wk EXCEPT ![w].pc = "mark_failed",
                                   ![w].err = Some(ErrorOf("OperationalError", ModelOfJob(job))) ]
              /\ last' = Raised("build_context", w, job.run_id, "", "OperationalError")
    /\ UNCHANGED << jobs, jobSeq, results, resultSeq, rowLock, api, now, claims >>

\* raw = await ollama_chat(messages, model=model), and the direct
\* parse/validate of _validate_or_fix (ai_insights.py 620-625)
Infer(w) ==
    /\ wk[w].pc = "infer"
    /\ \E out \in ChatOutcomes :
         wk' = [ wk EXCEPT
                   ![w].calls = @ + 1,
                   ![w].outs = Append(@, out),
                   ![w].raw = IF out \in RawTexts THEN Some(out) ELSE NULL,
                   ![w].err = IF out \in RawTexts THEN NULL
                              ELSE Some(ErrorOf(out, ModelOfJob(wk[w].job[1]))),
                   ![w].pc = IF out \notin RawTexts THEN "mark_failed"
                             ELSE IF Validates(out) THEN "insert_result"
                             ELSE "repair" ]
    /\ last' = Done("ollama_chat", w, wk[w].job[1].run_id, NULL)
    /\ UNCHANGED << jobs, jobSeq, results, resultSeq, rowLock, api, now, claims >>

\* the one retry of _validate_or_fix (ai_insights.py 627-643)
Repair(w) ==
    /\ wk[w].pc = "repair"
    /\ \E out \in ChatOutcomes :
         wk' = [ wk EXCEPT
                   ![w].calls = @ + 1,
                   ![w].outs = Append(@, out),
                   ![w].raw = IF out \in RawTexts /\ Validates(out) THEN Some(out) ELSE NULL,
                   ![w].err = IF out \notin RawTexts
                              THEN Some(ErrorOf(out, ModelOfJob(wk[w].job[1])))
                              ELSE IF Validates(out) THEN NULL
                              ELSE Some(ErrorOf(InvalidAs(out), ModelOfJob(wk[w].job[1]))),
                   ![w].pc = IF out \in RawTexts /\ Validates(out) THEN "insert_result"
                             ELSE "mark_failed" ]
    /\ last' = Done("_validate_or_fix", w, wk[w].job[1].run_id, NULL)
    /\ UNCHANGED << jobs, jobSeq, results, resultSeq, rowLock, api, now, claims >>

(***************************************************************************)
(* _mark_succeeded (ai_insights.py 694-724) and _mark_failed (679-692).    *)
(***************************************************************************)
\* _sha256_json (ai_insights.py 225-227)
Sha256Json(ctx) == << "sha256", ctx >>

\* INSERT INTO ai_insight_result (job_id, attempt_no, schema_version,
\*   result_json, raw_response_text) VALUES (%s, %s, 'v1', %s, %s)
InsertedResult(result_id, job_id, attempt_no, raw, t) ==
    [ result_id |-> result_id, job_id |-> job_id, attempt_no |-> attempt_no,
      schema_version |-> "v1", result_json |-> ModelDump(raw),
      raw_response_text |-> raw, created_at |-> t ]

\* (variant: the success write leaves the error columns alone)
SucceededRowKeepingError(row, rid, ctx, t) ==
    [ row EXCEPT !.status = "succeeded",
                 !.latest_result_id = Some(rid),
                 !.context_sha256 = Some(Sha256Json(ctx)),
                 !.context_json = Some(ctx),
                 !.finished_at = Some(t) ]

\* UPDATE ... SET status='succeeded', latest_result_id=%s, context_sha256=%s,
\*   context_json=%s, finished_at=now(), error_message=NULL, error_detail=NULL
SucceededRow(row, rid, ctx, t) ==
    [ row EXCEPT !.status = "succeeded",
                 !.latest_result_id = Some(rid),
                 !.context_sha256 = Some(Sha256Json(ctx)),
                 !.context_json = Some(ctx),
                 !.finished_at = Some(t),
                 !.error_message = NULL,
                 !.error_detail = NULL ]

\* (variant: the failure write applies to a running job only)
FailedRowIfRunning(row, err, detail, t) ==
    IF row.status # "running" THEN row
    ELSE [ row EXCEPT !.status = "failed",
                      !.error_message = Some(err),
                      !.error_detail = Some(detail),
                      !.finished_at = Some(t) ]

\* (variant: the failure write records the error and leaves the status)
FailedRowStillRunning(row, err, detail, t) ==
    [ row EXCEPT !.error_message = Some(err),
                 !.error_detail = Some(detail),
                 !.finished_at = Some(t) ]

\* UPDATE ... SET status='failed', error_message=%s, error_detail=%s,
\*   finished_at=now() WHERE job_id=%s
FailedRow(row, err, detail, t) ==
    [ row EXCEPT !.status = "failed",
                 !.error_message = Some(err),
                 !.error_detail = Some(detail),
                 !.finished_at = Some(t) ]

\* _mark_succeeded, the INSERT ... RETURNING result_id: the row is not
\* committed yet, the sequence value is taken.
InsertResult(w) ==
    /\ wk[w].pc = "insert_result"
    /\ resultSeq' = resultSeq + 1
    /\ wk' = [ wk EXCEPT ![w].pc = "update_job",
                         ![w].result_id = Some(resultSeq + 1),
                         ![w].tx_now = Some(now) ]
    /\ now' = now + 1
    /\ last' = Done("_mark_succeeded:insert", w, wk[w].job[1].run_id, NULL)
    /\ UNCHANGED << jobs, jobSeq, results, rowLock, api, claims >>

\* _mark_succeeded, the UPDATE of the job (it waits for a transaction holding
\* the row) and the commit of both statements; process_one_job returns True.
UpdateJob(w) ==
    /\ wk[w].pc = "update_job"
    /\ LET job == wk[w].job[1]
           rid == wk[w].result_id[1]
           t == wk[w].tx_now[1]
       IN  /\ rowLock[job.run_id] = Free
           /\ results' = [ i \in DOMAIN results \cup {rid} |->
                             IF i = rid
                             THEN InsertedResult(rid, job.job_id, job.attempts, wk[w].raw[1], t)
                             ELSE results[i] ]
           /\ jobs' = [ jobs EXCEPT ![job.job_id] =
                          SucceededRow(@, rid, wk[w].ctx[1], t) ]
           /\ last' = Wrote("_mark_succeeded", w, job.run_id, jobs[job.job_id].status, NULL)
    /\ wk' = [ wk EXCEPT ![w] = [ IdleWorker EXCEPT !.stop = wk[w].stop, !.db = wk[w].db ] ]
    /\ UNCHANGED << jobSeq, resultSeq, rowLock, api, now, claims >>

\* _mark_failed from an except clause of process_one_job, which then
\* returns True.
MarkFailed(w) ==
    /\ wk[w].pc = "mark_failed"
    /\ LET job == wk[w].job[1]
       IN  /\ rowLock[job.run_id] = Free
           /\ jobs' = [ jobs EXCEPT ![job.job_id] =
                          FailedRow(@, wk[w].err[1].err, wk[w].err[1].detail, now) ]
           /\ last' = Wrote("_mark_failed", w, job.run_id, jobs[job.job_id].status, NULL)
    /\ now' = now + 1
    /\ wk' = [ wk EXCEPT ![w] = [ IdleWorker EXCEPT !.stop = wk[w].stop, !.db = wk[w].db ] ]
    /\ UNCHANGED << jobSeq, results, resultSeq, rowLock, api, claims >>

(***************************************************************************)
(* The database failing under a worker (db.py 31-54: connect, a statement  *)
(* or the commit raises; connection() rolls back and re-raises).           *)
(***************************************************************************)
\* _claim_one_pending_job raises.  process_one_job calls it outside its try
\* block and worker_loop has no handler: the exception leaves worker_loop.
ClaimRaises(w) ==
    /\ wk[w].pc \in {"loop", "claim_selected"}
    /\ ~wk[w].stop \/ wk[w].pc = "claim_selected"
    /\ rowLock' = [ r \in DOMAIN rowLock |-> IF rowLock[r] = WorkerTx(w) THEN Free ELSE rowLock[r] ]
    /\ wk' = [ wk EXCEPT ![w] = [ IdleWorker EXCEPT !.pc = "crashed" ] ]
    /\ last' = Raised("_claim_one_pending_job", w, 0, "", "OperationalError")
    /\ UNCHANGED << jobs, jobSeq, results, resultSeq, api, now, claims >>

\* _mark_succeeded raises, at the INSERT or at the UPDATE / commit: both
\* statements are rolled back, and except Exception of process_one_job
\* takes it to _mark_failed(job_id, "Worker error", ...).
MarkSucceededRaises(w) ==
    /\ wk[w].pc \in {"insert_result", "update_job"}
    /\ wk' = [ wk EXCEPT ![w].pc = "mark_failed",
                         ![w].tx_now = NULL,
                         ![w].result_id = NULL,
                         ![w].err = Some(ErrorOf("OperationalError", ModelOfJob(wk[w].job[1]))) ]
    /\ last' = Raised("_mark_succeeded", w, wk[w].job[1].run_id, "", "OperationalError")
    /\ UNCHANGED << jobs, jobSeq, results, resultSeq, rowLock, api, now, claims >>

\* _mark_failed raises inside an except clause of process_one_job: nothing
\* catches it, the job row stays as it is and the exception leaves
\* worker_loop.
MarkFailedRaises(w) ==
    /\ wk[w].pc = "mark_failed"
    /\ wk' = [ wk EXCEPT ![w] = [ IdleWorker EXCEPT !.pc = "crashed" ] ]
    /\ last' = Raised("_mark_failed", w, wk[w].job[1].run_id, "", "OperationalError")
    /\ UNCHANGED << jobs, jobSeq, results, resultSeq, rowLock, api, now, claims >>

\* The worker process dies between its claim and its terminal write; the
\* server rolls back what its open transaction had written.
WorkerCrash(w) ==
    /\ wk[w].pc \in {"context", "infer", "repair", "insert_result", "update_job", "mark_failed"}
    /\ wk' = [ wk EXCEPT ![w] = [ IdleWorker EXCEPT !.pc = "crashed" ] ]
    /\ last' = Done("crash", w, wk[w].job[1].run_id, NULL)
    /\ UNCHANGED << jobs, jobSeq, results, resultSeq, rowLock, api, now, claims >>

(***************************************************************************)
(* worker_loop (ai_insights.py 752-756).                                   *)
(***************************************************************************)
\* if not did: await asyncio.sleep(AI_POLL_SECONDS)
Sleep(w) ==
    /\ wk[w].pc = "sleep"
    /\ wk' = [ wk EXCEPT ![w].pc = "loop" ]
    /\ last' = Done("sleep", w, 0, NULL)
    /\ UNCHANGED << jobs, jobSeq, results, resultSeq, rowLock, api, now, claims >>

\* while not stop_event.is_set(): the event is set and the loop ends.
LoopExit(w) ==
    /\ wk[w].pc = "loop"
    /\ wk[w].stop
    /\ wk' = [ wk EXCEPT ![w].pc = "stopped" ]
    /\ last' = Done("worker_loop", w, 0, NULL)
    /\ UNCHANGED << jobs, jobSeq, results, resultSeq, rowLock, api, now, claims >>

\* The owner of the worker sets the stop_event it passed to worker_loop.
SetStop(w) ==
    /\ wk[w].pc \notin {"stopped", "crashed"}
    /\ ~wk[w].stop
    /\ wk' = [ wk EXCEPT ![w].stop = TRUE ]
    /\ last' = Done("stop_event.set", w, 0, NULL)
    /\ UNCHANGED << jobs, jobSeq, results, resultSeq, rowLock, api, now, claims >>

\* a worker between its claim and its terminal write
InPipeline(w) ==
    wk[w].pc \in {"context", "infer", "repair", "insert_result", "update_job", "mark_failed"}

WorkerStep(w) ==
    \/ ClaimSelect(w)
    \/ ClaimUpdate(w)
    \/ BuildContext(w)
    \/ Infer(w)
    \/ Repair(w)
    \/ InsertResult(w)
    \/ UpdateJob(w)
    \/ MarkFailed(w)
    \/ Sleep(w)

\* The callers of start_job: insights_start (routes_ai_insights.py 29-43)
\* and any other caller, for any run.
Start ==
    \/ \E c \in DOMAIN api, r \in DOMAIN rowLock,
          rb \in RequestedByArgs, model \in ModelArgs :
            AttemptsLeft(r) /\ StartUpsert(c, r, rb, model)
    \/ \E c \in DOMAIN api : StartFinish(c)

Retry ==
    \/ \E c \in DOMAIN api, r \in DOMAIN rowLock : AttemptsLeft(r) /\ RetrySelect(c, r)
    \/ \E c \in DOMAIN api : RetryUpdate(c)

Next ==
    \/ \E r \in DOMAIN rowLock : ensure_job_created(r)
    \/ Start
    \/ Retry
    \/ \E c \in DOMAIN api, r \in DOMAIN rowLock : get_insights(c, r)
    \/ \E w \in DOMAIN wk : ClaimSelect(w)
    \/ \E w \in DOMAIN wk : ClaimUpdate(w)
    \/ \E w \in DOMAIN wk : BuildContext(w)
    \/ \E w \in DOMAIN wk : Infer(w)
    \/ \E w \in DOMAIN wk : Repair(w)
    \/ \E w \in DOMAIN wk : InsertResult(w)
    \/ \E w \in DOMAIN wk : UpdateJob(w)
    \/ \E w \in DOMAIN wk : MarkFailed(w)
    \/ \E w \in DOMAIN wk : Sleep(w)
    \/ \E w \in DOMAIN wk : ClaimRaises(w)
    \/ \E w \in DOMAIN wk : MarkSucceededRaises(w)
    \/ \E w \in DOMAIN wk : MarkFailedRaises(w)
    \/ \E w \in DOMAIN wk : WorkerCrash(w)

Spec == Init /\ [][Next]_vars

(***************************************************************************)
(* The exclusive-claim scenario: NumPending jobs are pending (each as      *)
(* start_job leaves a run it has just created), the workers run            *)
(* worker_loop, the database stays up and nobody calls the Job API.  An    *)
(* event loop runs every coroutine that can go on: each worker is weakly   *)
(* fair.                                                                   *)
(***************************************************************************)
PendingJob(r) == StartTransition(InsertedJob(r, r, "ui", Some(OLLAMA_MODEL)))

InitPending ==
    /\ jobs = [ r \in 1 .. NumPending |-> PendingJob(r) ]
    /\ jobSeq = NumPending
    /\ results = << >>
    /\ resultSeq = 0
    /\ rowLock = [ r \in 1 .. NumPending |-> Free ]
    /\ api = << >>
    /\ wk = [ w \in Workers |-> IdleWorker ]
    /\ now = 1
    /\ claims = [ r \in 1 .. NumPending |-> 0 ]
    /\ last = NoOp

NextWorkers ==
    \/ \E w \in DOMAIN wk : ClaimSelect(w)
    \/ \E w \in DOMAIN wk : ClaimUpdate(w)
    \/ \E w \in DOMAIN wk : BuildContext(w)
    \/ \E w \in DOMAIN wk : Infer(w)
    \/ \E w \in DOMAIN wk : Repair(w)
    \/ \E w \in DOMAIN wk : InsertResult(w)
    \/ \E w \in DOMAIN wk : UpdateJob(w)
    \/ \E w \in DOMAIN wk : MarkFailed(w)
    \/ \E w \in DOMAIN wk : Sleep(w)

LiveSpec ==
    /\ InitPending
    /\ [][NextWorkers]_vars
    /\ \A w \in Workers : WF_vars(WorkerStep(w))

(***************************************************************************)
(* The worker-loop scenario: NumPending jobs are pending, the workers run  *)
(* worker_loop, the database may fail under them and their owner may set   *)
(* their stop events; nobody calls the Job API.  (In Spec and LiveSpec no   *)
(* stop event is ever set.)                                                *)
(***************************************************************************)
NextLoop ==
    \/ NextWorkers
    \/ \E w \in DOMAIN wk : ClaimRaises(w)
    \/ \E w \in DOMAIN wk : MarkSucceededRaises(w)
    \/ \E w \in DOMAIN wk : MarkFailedRaises(w)
    \/ \E w \in DOMAIN wk : LoopExit(w)
    \/ \E w \in DOMAIN wk : SetStop(w)

LoopSpec == InitPending /\ [][NextLoop]_vars

(***************************************************************************)
(* The context scenario: worker 1 has claimed the job of run 1 and is      *)
(* about to call build_context, on a schema in which at most MaxFailing    *)
(* sections fail and at most MaxAbsent views are missing; the pipeline     *)
(* runs to its terminal write.                                             *)
(***************************************************************************)
InitContext ==
    /\ jobs = [ r \in {1} |-> ClaimUpdateRow(PendingJob(r), 1, 1) ]
    /\ jobSeq = 1
    /\ results = << >>
    /\ resultSeq = 0
    /\ rowLock = [ r \in {1} |-> Free ]
    /\ api = << >>
    /\ \E db \in Dbs :
         wk = [ w \in {1} |->
                  [ IdleWorker EXCEPT !.pc = "context",
                                      !.job = Some(ClaimedDict(PendingJob(1))),
                                      !.db = db ] ]
    /\ now = 2
    /\ claims = [ r \in {1} |-> 1 ]
    /\ last = NoOp

NextContext ==
    \/ \E w \in DOMAIN wk : BuildContext(w)
    \/ \E w \in DOMAIN wk : Infer(w)
    \/ \E w \in DOMAIN wk : Repair(w)
    \/ \E w \in DOMAIN wk : InsertResult(w)
    \/ \E w \in DOMAIN wk : UpdateJob(w)
    \/ \E w \in DOMAIN wk : MarkFailed(w)

ContextSpec == InitContext /\ [][NextContext]_vars

(***************************************************************************)
(* The double-start scenario: the run has no row, a row in created, or a   *)
(* row in failed (as a first attempt that failed leaves it); NumStarters   *)
(* callers call start_job and ensure_job_created; there is no retry and no *)
(* worker.                                                                 *)
(***************************************************************************)
CreatedJob(r) == InsertedJob(r, r, "system", Some(OLLAMA_MODEL))
FailedJob(r) ==
    FailedRow(ClaimUpdateRow(PendingJob(r), 1, 1),
              "Worker error", [ error |-> "OperationalError" ], 2)

InitStart ==
    /\ jobs \in { << >> } \cup { [ r \in RunIds |-> CreatedJob(r) ] }
                        \cup { [ r \in RunIds |-> FailedJob(r) ] }
    /\ jobSeq = NumRuns
    /\ results = << >>
    /\ resultSeq = 0
    /\ rowLock = [ r \in RunIds |-> Free ]
    /\ api = [ c \in 1 .. NumStarters |-> IdleCall ]
    /\ wk = << >>
    /\ now = 3
    /\ claims = [ j \in DOMAIN jobs |-> 0 ]
    /\ last = NoOp

NextStart ==
    \/ \E r \in DOMAIN rowLock : ensure_job_created(r)
    \/ \E c \in DOMAIN api, r \in DOMAIN rowLock,
          rb \in RequestedByArgs, model \in ModelArgs : StartUpsert(c, r, rb, model)
    \/ \E c \in DOMAIN api : StartFinish(c)

StartSpec == InitStart /\ [][NextStart]_vars

(***************************************************************************)
(*                              The claims                                 *)
(***************************************************************************)
\* the committed row of run r before and after a step
RowBefore(r) == FetchJobOfRun(jobs, r)
RowAfter(r) == FetchJobOfRun(jobs', r)

\* C1: a pending job is returned to at most one worker: between two
\* consecutive entries of a job into 'pending' (by start_job or retry_job),
\* at most one call of _claim_one_pending_job returns that job.
C1_AtMostOneClaimant ==
    \A j \in DOMAIN jobs : claims[j] <= 1

\* C1, its case: the job entered pending twice and was returned once per
\* entry: the worker of the first entry is still in its pipeline when the
\* second worker is given the job.
C1_Witness ==
    \E j \in DOMAIN jobs : \E w1, w2 \in DOMAIN wk :
        /\ claims[j] = 1
        /\ jobs[j].status = "running"
        /\ InPipeline(w1) /\ wk[w1].job[1].job_id = j /\ wk[w1].job[1].attempts = 1
        /\ wk[w2].pc = "context" /\ wk[w2].job[1].job_id = j /\ wk[w2].job[1].attempts = 2

\* C2: there is never a moment at which two workers are both executing the
\* pipeline (between their claim and their terminal write) for the same job.
C2_NeverTwoWorkersOnOneJob ==
    \A w1, w2 \in DOMAIN wk :
        (w1 # w2 /\ InPipeline(w1) /\ InPipeline(w2))
            => wk[w1].job[1].job_id # wk[w2].job[1].job_id

\* C3: given N pending jobs and weakly fair workers that keep calling
\* _claim_one_pending_job, with no further start or retry, each job is
\* returned to at most one caller and every job is eventually claimed.
C3_ExclusiveClaim ==
    /\ [](\A j \in DOMAIN jobs : claims[j] <= 1)
    /\ <>(\A j \in DOMAIN jobs : claims[j] = 1)

\* C3, its case: all N jobs have been claimed, by different workers.
C3_Witness ==
    /\ \A j \in DOMAIN jobs : claims[j] = 1 /\ jobs[j].locked_by # NULL
    /\ \E j1, j2 \in DOMAIN jobs : jobs[j1].locked_by # jobs[j2].locked_by

\* C4: at most one job row exists per run_id, in every reachable state, and
\* ensure_job_created on a run_id that already has a row changes no field
\* of that row.
C4_OneRowPerRun ==
    /\ [](\A j1, j2 \in DOMAIN jobs : jobs[j1].run_id = jobs[j2].run_id => j1 = j2)
    /\ [][ (last'.op = "ensure_job_created" /\ RowBefore(last'.run_id) # NULL)
             => jobs' = jobs ]_vars

\* C4, its case: ensure_job_created ran on a run that had a row while a
\* start_job call for the same run was between its two statements.
C4_Witness ==
    /\ last.op = "ensure_job_created"
    /\ last.before = "pending"
    /\ \E c \in DOMAIN api : api[c].pc = "start_upserted" /\ api[c].run_id = last.run_id
    /\ Cardinality(DOMAIN jobs) = 1

\* C5: start_job on a job whose status is pending, running or succeeded
\* leaves attempts, status, locked_by and locked_at unchanged.
C5_StartIdempotent ==
    [][ (/\ last'.op = "start_job"
         /\ RowBefore(last'.run_id) # NULL
         /\ RowBefore(last'.run_id)[1].status \in {"pending", "running", "succeeded"})
        => /\ RowAfter(last'.run_id)[1].attempts = RowBefore(last'.run_id)[1].attempts
           /\ RowAfter(last'.run_id)[1].status = RowBefore(last'.run_id)[1].status
           /\ RowAfter(last'.run_id)[1].locked_by = RowBefore(last'.run_id)[1].locked_by
           /\ RowAfter(last'.run_id)[1].locked_at = RowBefore(last'.run_id)[1].locked_at
      ]_vars

\* C5, its case: start_job returned on a succeeded job, which is still succeeded.
C5_Witness ==
    /\ last.op = "start_job"
    /\ last.before = "succeeded"
    /\ \A j \in JobIdsOfRun(jobs, last.run_id) : jobs[j].status = "succeeded"

\* C6: start_job on a job in created or failed, or on a run_id with no row,
\* sets status to pending, increases attempts by exactly 1 and sets
\* error_message, error_detail, locked_by and locked_at to null; for a
\* never-started run_id the returned job has status pending and attempts 1.
C6_StartAdvances ==
    [][ (/\ last'.op = "start_job"
         /\ \/ RowBefore(last'.run_id) = NULL
            \/ RowBefore(last'.run_id)[1].status \in {"created", "failed"})
        => /\ RowAfter(last'.run_id) # NULL
           /\ RowAfter(last'.run_id)[1].status = "pending"
           /\ RowAfter(last'.run_id)[1].error_message = NULL
           /\ RowAfter(last'.run_id)[1].error_detail = NULL
           /\ RowAfter(last'.run_id)[1].locked_by = NULL
           /\ RowAfter(last'.run_id)[1].locked_at = NULL
           /\ IF RowBefore(last'.run_id) = NULL
              THEN /\ last'.ret # NULL
                   /\ last'.ret[1].status = "pending"
                   /\ last'.ret[1].attempts = 1
                   /\ RowAfter(last'.run_id)[1].attempts = 1
              ELSE RowAfter(last'.run_id)[1].attempts
                       = RowBefore(last'.run_id)[1].attempts + 1
      ]_vars

\* C6, its case: start_job returned on a failed job that a worker had
\* locked, and the job is pending in its second attempt.
C6_Witness ==
    /\ last.op = "start_job"
    /\ last.before = "failed"
    /\ \A j \in JobIdsOfRun(jobs, last.run_id) :
          jobs[j].status = "pending" /\ jobs[j].attempts = 2 /\ jobs[j].started_at # NULL

\* C7: when k >= 2 start_job calls for one run_id run concurrently on a job
\* in created or failed (or absent), with no retry and no worker, attempts
\* grows by exactly 1, not by k: a step changes status or attempts only from
\* created or failed to pending with attempts + 1 (a new row is created with
\* attempts 0, or pending with attempts 1), and once a start_job call has
\* returned the job of its run is pending.
C7_ConcurrentStartsBumpOnce ==
    /\ [][ \A j \in DOMAIN jobs' :
             IF j \in DOMAIN jobs
             THEN \/ /\ jobs'[j].attempts = jobs[j].attempts
                     /\ jobs'[j].status = jobs[j].status
                  \/ /\ jobs[j].status \in {"created", "failed"}
                     /\ jobs'[j].status = "pending"
                     /\ jobs'[j].attempts = jobs[j].attempts + 1
             ELSE \/ jobs'[j].status = "created" /\ jobs'[j].attempts = 0
                  \/ jobs'[j].status = "pending" /\ jobs'[j].attempts = 1 ]_vars
    /\ [](last.op = "start_job" =>
            /\ JobIdsOfRun(jobs, last.run_id) # {}
            /\ \A j \in JobIdsOfRun(jobs, last.run_id) : jobs[j].status = "pending")

\* C7, its case: of the concurrent calls on a failed job, a later one has
\* returned after the first one had made the job pending: attempts is 2.
C7_Witness ==
    /\ last.op = "start_job"
    /\ last.before = "pending"
    /\ \A j \in JobIdsOfRun(jobs, last.run_id) :
          jobs[j].status = "pending" /\ jobs[j].attempts = 2 /\ jobs[j].finished_at # NULL

\* C8: retry_job on an existing job sets status to pending from every
\* status, increases attempts by exactly 1 and nulls error_message,
\* error_detail, locked_by and locked_at; on a run_id with no row it fails
\* with the not-found error (404 from insights_retry), creates no row and
\* changes no state.
C8_Retry ==
    [][ last'.op = "retry_job" =>
          IF RowBefore(last'.run_id) = NULL
          THEN /\ last'.raised = Some("KeyError")
               /\ insights_retry(last'.raised[1]) = 404
               /\ jobs' = jobs
               /\ results' = results
          ELSE /\ last'.raised = NULL
               /\ RowAfter(last'.run_id)[1].status = "pending"
               /\ RowAfter(last'.run_id)[1].attempts
                      = RowBefore(last'.run_id)[1].attempts + 1
               /\ RowAfter(last'.run_id)[1].error_message = NULL
               /\ RowAfter(last'.run_id)[1].error_detail = NULL
               /\ RowAfter(last'.run_id)[1].locked_by = NULL
               /\ RowAfter(last'.run_id)[1].locked_at = NULL
      ]_vars

\* C8, its case: retry_job returned on a job that was running, whose worker
\* is still in the pipeline.
C8_Witness ==
    /\ last.op = "retry_job"
    /\ last.before = "running"
    /\ last.raised = NULL
    /\ \E w \in DOMAIN wk : InPipeline(w) /\ wk[w].job[1].run_id = last.run_id

\* C9: get_insights never changes a job or result row, in any state; for a
\* run_id with no job row it returns job = null and result = null.
C9_GetInsightsReadOnly ==
    [][ last'.op = "get_insights" =>
          /\ jobs' = jobs
          /\ results' = results
          /\ last'.raised = NULL
          /\ RowBefore(last'.run_id) = NULL
                => last'.ret = Some([ job |-> NULL, result |-> NULL ])
      ]_vars

\* C9, its case: get_insights answered for a run that has no job row.
C9_Witness ==
    /\ last.op = "get_insights"
    /\ last.ret = Some([ job |-> NULL, result |-> NULL ])
    /\ DOMAIN jobs = {}

\* C10: every status change of a job is one of created->pending,
\* pending->running, running->succeeded, running->failed, failed->pending
\* (start or retry), succeeded->pending (retry only); in particular a job
\* enters succeeded or failed only from running.
C10_StatusChanges ==
    [][ \A j \in DOMAIN jobs :
          jobs'[j].status # jobs[j].status =>
            \/ jobs[j].status = "created" /\ jobs'[j].status = "pending"
            \/ jobs[j].status = "pending" /\ jobs'[j].status = "running"
            \/ jobs[j].status = "running" /\ jobs'[j].status \in {"succeeded", "failed"}
            \/ /\ jobs[j].status = "failed" /\ jobs'[j].status = "pending"
               /\ last'.op \in {"start_job", "retry_job"}
            \/ /\ jobs[j].status = "succeeded" /\ jobs'[j].status = "pending"
               /\ last'.op = "retry_job"
      ]_vars

\* the worker of the step, its claimed job and the texts its inference calls gave
StepJob == wk[last'.who].job[1]
StepOuts == wk[last'.who].outs
\* worker w leaves the pipeline in the step
LeavesPipeline(w) == InPipeline(w) /\ wk'[w].pc \in {"loop", "sleep", "crashed"}

\* C11: in every reachable state a job whose status is not running has
\* locked_by and locked_at null (the success write, the failure write and
\* retry all clear both).
C11_LockClearedOutsideRunning ==
    \A j \in DOMAIN jobs :
        jobs[j].status # "running" => jobs[j].locked_by = NULL /\ jobs[j].locked_at = NULL

\* C12: no claim makes more than 2 inference calls; when the success write
\* of a worker completes, a first response that was invalid was followed by
\* exactly one repair call, which was valid (2 calls), a valid first
\* response by none (1 call), and the job is succeeded with a new Result
\* whose attempt_no equals the job's attempts.
C12_BoundedRepair ==
    /\ [](\A w \in DOMAIN wk : wk[w].calls <= 2)
    /\ [][ (last'.op = "_mark_succeeded" /\ last'.raised = NULL) =>
             /\ IF Validates(StepOuts[1])
                THEN wk[last'.who].calls = 1
                ELSE wk[last'.who].calls = 2 /\ Validates(StepOuts[2])
             /\ jobs'[StepJob.job_id].status = "succeeded"
             /\ \E i \in DOMAIN results' \ DOMAIN results :
                  /\ results'[i].job_id = StepJob.job_id
                  /\ results'[i].attempt_no = jobs'[StepJob.job_id].attempts
         ]_vars

\* C13: when the first response and the repair response are both invalid,
\* the failure write leaves the job failed with error_message "Invalid JSON
\* from model" and inserts no Result; no claim makes a third inference call;
\* and the job stays failed until a start_job or retry_job.
C13_DoubleInvalidFails ==
    /\ [](\A w \in DOMAIN wk : wk[w].calls <= 2)
    /\ [][ (/\ last'.op = "_mark_failed" /\ last'.raised = NULL
            /\ Len(StepOuts) = 2
            /\ StepOuts[2] \in RawTexts /\ ~Validates(StepOuts[2]))
           => /\ jobs'[StepJob.job_id].status = "failed"
              /\ jobs'[StepJob.job_id].error_message = Some("Invalid JSON from model")
              /\ results' = results
         ]_vars
    /\ [][ \A j \in DOMAIN jobs :
             (/\ jobs[j].status = "failed"
              /\ jobs[j].error_message = Some("Invalid JSON from model")
              /\ jobs'[j].status # "failed")
             => last'.op \in {"start_job", "retry_job"}
         ]_vars

\* C14: when the last inference call of a claim (the first call or the
\* repair call) raised a timeout, the failure write leaves the job failed
\* with error_message "Ollama timeout" and error_detail holding the
\* configured base URL and the model of the attempt: the claimed job's
\* model, or the default when it is null.
C14_TimeoutClassified ==
    [][ (/\ last'.op = "_mark_failed" /\ last'.raised = NULL
         /\ Len(StepOuts) > 0
         /\ StepOuts[Len(StepOuts)] = "TimeoutException")
        => /\ jobs'[StepJob.job_id].status = "failed"
           /\ jobs'[StepJob.job_id].error_message = Some("Ollama timeout")
           /\ jobs'[StepJob.job_id].error_detail =
                Some([ base_url |-> OLLAMA_BASE_URL,
                       model |-> IF StepJob.model = NULL THEN OLLAMA_MODEL
                                 ELSE StepJob.model[1] ])
      ]_vars

\* C14, its case: an inference call of a job started with model "m1" timed
\* out, and the failure write has recorded the timeout with that model.
C14_Witness ==
    /\ last.op = "_mark_failed"
    /\ last.raised = NULL
    /\ \E j \in JobIdsOfRun(jobs, last.run_id) :
         /\ jobs[j].status = "failed"
         /\ jobs[j].error_message = Some("Ollama timeout")
         /\ jobs[j].error_detail = Some([ base_url |-> OLLAMA_BASE_URL, model |-> "m1" ])
         /\ jobs[j].model = Some("m1")

\* C15: no failure of a pipeline step after a claim leaves the worker_loop
\* iteration: a worker that leaves the pipeline otherwise than by a
\* completed success write has left the job failed and is at the top of
\* the loop.
C15_FailuresAbsorbed ==
    [][ \A w \in DOMAIN wk :
          (/\ LeavesPipeline(w)
           /\ last'.op # "crash"
           /\ ~(last'.op = "_mark_succeeded" /\ last'.raised = NULL))
          => /\ wk'[w].pc = "loop"
             /\ jobs'[wk[w].job[1].job_id].status = "failed"
      ]_vars

\* C16: start_job on an existing job whose model is set leaves that model
\* as it is, whatever model argument is passed.
C16_ModelFilledOnlyWhenUnset ==
    [][ (/\ last'.op = "start_job"
         /\ RowBefore(last'.run_id) # NULL
         /\ RowBefore(last'.run_id)[1].model # NULL)
        => RowAfter(last'.run_id)[1].model = RowBefore(last'.run_id)[1].model
      ]_vars

\* C17: in every reachable state a job's latest_result_id, when not null,
\* names a Result of that job and no Result of the job was inserted later
\* (result_id and created_at both follow the order of the INSERTs).
C17_LatestResultIsNewest ==
    \A j \in DOMAIN jobs :
        jobs[j].latest_result_id # NULL =>
            /\ jobs[j].latest_result_id[1] \in DOMAIN results
            /\ \A i \in DOMAIN results :
                 results[i].job_id = j => i <= jobs[j].latest_result_id[1]

\* C18: every Result row's attempt_no equals the attempts of its job at the
\* moment the Result is inserted.
C18_AttemptNoIsJobAttempts ==
    [][ \A i \in DOMAIN results' \ DOMAIN results :
          results'[i].attempt_no = jobs[results'[i].job_id].attempts
      ]_vars

\* C19: attempts never decreases; it changes only by +1, in start_job on a
\* job in created or failed and in retry_job; every other operation leaves
\* it unchanged (a new row has attempts 0 from ensure_job_created, or 1
\* from the start_job that created it).
C19_AttemptsOnlyIncrease ==
    [][ \A j \in DOMAIN jobs' :
          IF j \in DOMAIN jobs
          THEN \/ jobs'[j].attempts = jobs[j].attempts
               \/ /\ jobs'[j].attempts = jobs[j].attempts + 1
                  /\ \/ last'.op = "retry_job"
                     \/ last'.op = "start_job" /\ jobs[j].status \in {"created", "failed"}
          ELSE \/ last'.op = "ensure_job_created" /\ jobs'[j].attempts = 0
               \/ last'.op = "start_job" /\ jobs'[j].attempts = 1
      ]_vars

\* C19, its case: retry_job took a succeeded job into its second attempt,
\* after a claim and a success write that left attempts at 1.
C19_Witness ==
    /\ last.op = "retry_job"
    /\ last.before = "succeeded"
    /\ \A j \in JobIdsOfRun(jobs, last.run_id) :
          jobs[j].attempts = 2 /\ jobs[j].latest_result_id # NULL

\* C20: when the claim transaction fails, no job row changes, the worker
\* sleeps the poll interval and its loop goes on.
C20_ClaimFailureIsNoJob ==
    [][ (last'.op = "_claim_one_pending_job" /\ last'.raised # NULL)
        => /\ jobs' = jobs
           /\ wk'[last'.who].pc = "sleep"
      ]_vars

\* C21: the terminal write of a worker is applied whatever the job row holds
\* (it matches on job_id only): after every completed success write the job
\* is succeeded with the writer's Result as latest_result_id, after every
\* completed failure write it is failed with the writer's error, also when
\* retry_job had made the job pending or another worker runs it for a newer
\* attempt.
C21_StaleWriteOverwrites ==
    [][ /\ (last'.op = "_mark_succeeded" /\ last'.raised = NULL)
           => /\ jobs'[StepJob.job_id].status = "succeeded"
              /\ jobs'[StepJob.job_id].latest_result_id = wk[last'.who].result_id
        /\ (last'.op = "_mark_failed" /\ last'.raised = NULL)
           => /\ jobs'[StepJob.job_id].status = "failed"
              /\ jobs'[StepJob.job_id].error_message = Some(wk[last'.who].err[1].err)
      ]_vars

\* C21, its case: worker A, overtaken by a retry, has written its failure
\* on the job while it was pending in its second attempt, or while another
\* worker was running that attempt.
C21_Witness ==
    /\ last.op = "_mark_failed"
    /\ last.raised = NULL
    /\ \E j \in JobIdsOfRun(jobs, last.run_id) :
         /\ jobs[j].status = "failed"
         /\ jobs[j].attempts = 2
         /\ \/ last.before = "pending"
            \/ /\ last.before = "running"
               /\ jobs[j].locked_by # Some(WORKER_ID(last.who))
               /\ \E w \in DOMAIN wk : InPipeline(w) /\ wk[w].job[1].job_id = j

\* a running job whose claiming worker is gone, and that no live worker
\* holds a claim of
Orphaned(j) ==
    /\ jobs[j].status = "running"
    /\ \E w \in DOMAIN wk : wk[w].pc = "crashed" /\ jobs[j].locked_by = Some(WORKER_ID(w))
    /\ \A w \in DOMAIN wk :
         (InPipeline(w) \/ wk[w].pc = "claim_selected") => wk[w].job[1].job_id # j

C23_StartedAtSetOnce ==
    [][ /\ \A j \in DOMAIN jobs :
             jobs'[j].started_at # jobs[j].started_at
             => /\ jobs[j].started_at = NULL
                /\ last'.op = "_claim_one_pending_job"
                /\ jobs'[j].started_at = jobs'[j].locked_at
        /\ \A j \in DOMAIN jobs' \ DOMAIN jobs : jobs'[j].started_at = NULL
        /\ (last'.op = "_claim_one_pending_job" /\ last'.ret # NULL)
             => jobs'[last'.ret[1].job_id].started_at # NULL
        /\ (last'.op = "_mark_succeeded" /\ last'.raised = NULL)
             => jobs'[StepJob.job_id].finished_at = wk[last'.who].tx_now
        /\ (last'.op = "_mark_failed" /\ last'.raised = NULL)
             => jobs'[StepJob.job_id].finished_at = Some(now)
      ]_vars

\* C23, its case: the second claim of a job (after a retry or a start) has
\* stamped locked_at and kept the started_at of the first claim.
C23_Witness ==
    /\ last.op = "_claim_one_pending_job"
    /\ last.ret # NULL
    /\ jobs[last.ret[1].job_id].attempts = 2
    /\ jobs[last.ret[1].job_id].started_at # NULL
    /\ jobs[last.ret[1].job_id].started_at[1] < jobs[last.ret[1].job_id].locked_at[1]

\* C24: a call of _claim_one_pending_job made while no job is pending
\* returns None (it gets no further than its SELECT) and changes no job or
\* result row.
C24_EmptyQueueClaim ==
    [][ (/\ last'.op \in {"_claim_one_pending_job", "_claim_one_pending_job:select"}
         /\ last'.raised = NULL
         /\ \A j \in DOMAIN jobs : jobs[j].status # "pending")
        => /\ last'.op = "_claim_one_pending_job"
           /\ last'.ret = NULL
           /\ jobs' = jobs
           /\ results' = results
      ]_vars

\* C24, its case: the claim returned None with no job pending while the one
\* job there is was running, succeeded or failed.
C24_Witness ==
    /\ last.op = "_claim_one_pending_job"
    /\ last.ret = NULL
    /\ last.raised = NULL
    /\ DOMAIN jobs # {}
    /\ \A j \in DOMAIN jobs : jobs[j].status \in {"running", "succeeded", "failed"}

\* C25: worker_loop sleeps exactly when process_one_job reported that no job
\* was claimed, is back at the top of the loop without sleeping after a job
\* was processed (succeeded or failed), makes no new claim once its stop
\* event is set, and leaves the loop only when the stop event is set.
C25_LoopControl ==
    [][ \A w \in DOMAIN wk :
          /\ (wk[w].pc # "sleep" /\ wk'[w].pc = "sleep")
               <=> (/\ last'.op = "_claim_one_pending_job" /\ last'.who = w
                    /\ last'.ret = NULL /\ last'.raised = NULL)
          /\ (/\ last'.op \in {"_mark_succeeded", "_mark_failed"}
              /\ last'.who = w /\ last'.raised = NULL)
               => wk'[w].pc = "loop"
          /\ (/\ last'.op \in {"_claim_one_pending_job", "_claim_one_pending_job:select"}
              /\ last'.who = w /\ wk[w].pc = "loop")
               => ~wk[w].stop
          /\ (wk[w].pc \notin {"stopped", "crashed"} /\ wk'[w].pc \in {"stopped", "crashed"})
               => wk[w].stop
      ]_vars

\* C26: build_context does not raise when the query of a section fails
\* (with its connection up): it returns the context, with a warning
\* recorded.
C26_ContextNeverRaises ==
    [][ (/\ last'.op = "build_context"
         /\ last'.raised # Some("OperationalError")
         /\ wk[last'.who].db.failing # {})
        => /\ last'.raised = NULL
           /\ last'.ret # NULL
           /\ last'.ret[1].run_id = StepJob.run_id
           /\ wk'[last'.who].pc = "infer"
      ]_vars


(***************************************************************************)
(* C27: for each job, no two Result rows have the same attempt_no, under   *)
(* any interleaving of start_job, retry_job and concurrent workers: a job  *)
(* becomes pending only through an operation that increments attempts, so  *)
(* every claim of the job reads a distinct attempts value.                 *)
(***************************************************************************)
C27_DistinctAttemptNo ==
    /\ \A a \in DOMAIN results : \A b \in DOMAIN results :
          (a # b /\ results[a].job_id = results[b].job_id)
              => results[a].attempt_no # results[b].attempt_no
    \* the attempts values held by the workers that claimed one job differ too
    /\ \A v \in Workers : \A w \in Workers :
          (/\ v # w
           /\ wk[v].job # NULL /\ wk[w].job # NULL
           /\ wk[v].pc # "claim_selected" /\ wk[w].pc # "claim_selected"
           /\ wk[v].job[1].job_id = wk[w].job[1].job_id)
              => wk[v].job[1].attempts # wk[w].job[1].attempts

\* Two Result rows of one job, written by two claims of it.
C27_Witness ==
    \E a \in DOMAIN results : \E b \in DOMAIN results :
        /\ a # b
        /\ results[a].job_id = results[b].job_id
        /\ results[a].attempt_no < results[b].attempt_no


(***************************************************************************)
(* C28: in every committed state the outcome fields agree with the status: *)
(* status = succeeded implies latest_result_id references an existing      *)
(* Result row owned by that job and error_message and error_detail are     *)
(* null; status = failed implies error_message is not null; status in      *)
(* {created, pending, running} implies error_message and error_detail are  *)
(* null; status = pending implies locked_by is null and status = running   *)
(* implies locked_by is not null.                                          *)
(***************************************************************************)
C28_OutcomeAgreesWithStatus ==
    \A j \in DOMAIN jobs :
        /\ jobs[j].status = "succeeded"
              => /\ jobs[j].latest_result_id # NULL
                 /\ jobs[j].latest_result_id[1] \in DOMAIN results
                 /\ results[jobs[j].latest_result_id[1]].job_id = j
                 /\ jobs[j].error_message = NULL
                 /\ jobs[j].error_detail = NULL
        /\ jobs[j].status = "failed" => jobs[j].error_message # NULL
        /\ jobs[j].status \in {"created", "pending", "running"}
              => /\ jobs[j].error_message = NULL
                 /\ jobs[j].error_detail = NULL
        /\ jobs[j].status = "pending" => jobs[j].locked_by = NULL
        /\ jobs[j].status = "running" => jobs[j].locked_by # NULL

\* A success write has just landed on a row a failure write had filled.
C28_Witness ==
    /\ last.op = "_mark_succeeded"
    /\ last.before = "failed"
    /\ \E j \in JobIdsOfRun(jobs, last.run_id) :
          /\ jobs[j].status = "succeeded"
          /\ jobs[j].error_message = NULL
          /\ jobs[j].latest_result_id # NULL


(***************************************************************************)
(* C29: the failure write and retry_job/start_job leave latest_result_id,  *)
(* context_sha256 and context_json unchanged, and no operation deletes or  *)
(* updates a Result row: once a job has succeeded, get_insights keeps      *)
(* returning its last persisted result while the job is later pending,     *)
(* running or failed.                                                      *)
(***************************************************************************)
C29_ResultSurvives ==
    [][ /\ \A i \in DOMAIN results :
              i \in DOMAIN results' /\ results'[i] = results[i]
        /\ last'.op \in {"_mark_failed", "retry_job:select", "retry_job",
                         "start_job:upsert", "start_job"}
              => \A j \in JobIdsOfRun(jobs, last'.run_id) :
                    /\ j \in DOMAIN jobs'
                    /\ jobs'[j].latest_result_id = jobs[j].latest_result_id
                    /\ jobs'[j].context_sha256 = jobs[j].context_sha256
                    /\ jobs'[j].context_json = jobs[j].context_json
        /\ last'.op = "get_insights"
              => \A j \in JobIdsOfRun(jobs, last'.run_id) :
                    (\E i \in DOMAIN results : results[i].job_id = j)
                        => /\ jobs[j].latest_result_id # NULL
                           /\ jobs[j].latest_result_id[1] \in DOMAIN results
                           /\ results[jobs[j].latest_result_id[1]].job_id = j
                           /\ last'.ret[1].result =
                                 Some([ schema_version |->
                                          results[jobs[j].latest_result_id[1]].schema_version,
                                        json |->
                                          results[jobs[j].latest_result_id[1]].result_json ])
      ]_vars

\* get_insights answers with the result of an earlier attempt for a job that
\* has failed since.
C29_Witness ==
    /\ last.op = "get_insights"
    /\ last.ret[1].job # NULL
    /\ last.ret[1].job[1].status = "failed"
    /\ last.ret[1].job[1].context_json # NULL
    /\ last.ret[1].result # NULL


(***************************************************************************)
(* C30: every successful claim is followed by exactly one committed        *)
(* terminal write by the claiming worker (either the success write with    *)
(* one new Result, or one failure write, never both and never none),       *)
(* provided the worker does not crash, the database stays reachable and    *)
(* each inference call returns or times out; so without retry a claimed    *)
(* job eventually leaves running.                                          *)
(***************************************************************************)
C30_OneTerminalWrite ==
    \* between its claim and its terminal write the worker writes nothing, and
    \* it leaves the pipeline by the one terminal write
    /\ [][ \A w \in Workers :
              /\ (InPipeline(w) /\ last'.who = w /\ ~LeavesPipeline(w))
                    => jobs' = jobs /\ results' = results
              /\ LeavesPipeline(w)
                    => /\ last'.who = w
                       /\ last'.raised = NULL
                       /\ \/ /\ last'.op = "_mark_succeeded"
                             /\ jobs'[wk[w].job[1].job_id].status = "succeeded"
                             /\ Cardinality(DOMAIN results' \ DOMAIN results) = 1
                             /\ \A i \in DOMAIN results' \ DOMAIN results :
                                   results'[i].job_id = wk[w].job[1].job_id
                          \/ /\ last'.op = "_mark_failed"
                             /\ jobs'[wk[w].job[1].job_id].status = "failed"
                             /\ results' = results
          ]_vars
    \* never both: a succeeded job has one Result, any other job none; a
    \* running job is in the hands of one worker, a finished one of none
    /\ [](\A j \in DOMAIN jobs :
            /\ Cardinality({ i \in DOMAIN results : results[i].job_id = j })
                  = IF jobs[j].status = "succeeded" THEN 1 ELSE 0
            /\ Cardinality({ w \in Workers : InPipeline(w) /\ wk[w].job[1].job_id = j })
                  = IF jobs[j].status = "running" THEN 1 ELSE 0)
    \* never none
    /\ \A j \in 1 .. NumPending :
          (jobs[j].status = "running") ~> (jobs[j].status \in {"succeeded", "failed"})

\* Both terminal writes have happened: one claimed job has succeeded with its
\* Result, another has failed, and the workers are out of the pipeline.
C30_Witness ==
    /\ \A w \in Workers : ~InPipeline(w) /\ wk[w].pc # "claim_selected"
    /\ \E j \in DOMAIN jobs :
          /\ jobs[j].status = "succeeded"
          /\ claims[j] = 1
          /\ \E i \in DOMAIN results : results[i].job_id = j
    /\ \E j \in DOMAIN jobs :
          /\ jobs[j].status = "failed"
          /\ claims[j] = 1

=============================================================================
